---- MODULE Spec2Model ----
(***************************************************************************)
(* Data models of the GSpot platform:                                      *)
(*   - the chat Room schema (backend/channels/chat/src/rooms/models.py),   *)
(*   - the Admin permission model, the AdminManager provisioning calls and *)
(*     the BlockReason audit row (backend/users/backend/administrator/     *)
(*     models.py).                                                         *)
(* Text is a sequence of one-character strings; a Python Optional is the   *)
(* record None or Some(x).                                                 *)
(***************************************************************************)
EXTENDS Integers, Sequences, FiniteSets, TLC

VARIABLES
    now,                    \* the clock read by datetime.utcnow() / auto_now_add
    last,                   \* the last call made: its arguments and its outcome
    admins,                 \* table "admin": pk -> row
    customers,              \* pks of the CustomerUser rows
    blockReasons,           \* table "block_reasons": pk -> row
    nextAdminPk,            \* next primary key of table "admin"
    nextCustomerPk,         \* next primary key of the customer table
    nextBlockPk,            \* next primary key of table "block_reasons"
    user_permissions,       \* Admin.user_permissions:      <<admin pk, AdminPermission>>
    groups,                 \* Admin.groups:                <<admin pk, AdminGroup>>
    group_permission,       \* AdminGroup.permission:       <<AdminGroup, AdminPermission>>
    developer_permissions,  \* Admin.developer_permissions: <<admin pk, DeveloperPermission>>
    developer_groups,       \* Admin.developer_groups:      <<admin pk, DeveloperGroup>>
    developergroup_permission \* DeveloperGroup's grants:   <<DeveloperGroup, DeveloperPermission>>

roomVars == <<now, last>>
dbVars   == <<admins, customers, blockReasons, nextAdminPk, nextCustomerPk, nextBlockPk>>
permVars == <<user_permissions, groups, group_permission,
              developer_permissions, developer_groups, developergroup_permission>>
vars     == <<now, last, admins, customers, blockReasons, nextAdminPk, nextCustomerPk,
              nextBlockPk, user_permissions, groups, group_permission,
              developer_permissions, developer_groups, developergroup_permission>>

----------------------------------------------------------------------------
(* Bounds of the model *)

MaxTime         == 2    \* the clock runs over 0..MaxTime
MaxNameLen      == 2    \* room names up to this length (plus "Test Room")
MaxAdmins       == 2    \* Admin rows ever created
MaxRows         == 5    \* rows ever created, over the three tables together
MaxReasonLen    == 3    \* reasons of length 0..MaxReasonLen (plus 255 and 256)
MaxGrantRows    == 4    \* rows over all the many-to-many tables together

----------------------------------------------------------------------------
(* Python values *)

None    == [none |-> TRUE,  v |-> <<>>]
Some(x) == [none |-> FALSE, v |-> x]

\* Python truthiness of an Optional[str]: None and "" are falsy.
Truthy(o) == ~o.none /\ o.v # <<>>

RECURSIVE SeqsUpTo(_, _)
SeqsUpTo(S, n) ==
    IF n = 0 THEN {<<>>}
    ELSE LET shorter == SeqsUpTo(S, n - 1)
         IN  shorter \cup {Append(s, c) : s \in {t \in shorter : Len(t) = n - 1}, c \in S}

Repeat(c, n) == [i \in 1..n |-> c]

\* Rows created so far, over the admin, customer and block_reasons tables
RowsCreated == (nextAdminPk - 1) + (nextCustomerPk - 1) + (nextBlockPk - 1)

\* Empty tables
EmptyDb ==
    /\ admins = <<>>
    /\ customers = {}
    /\ blockReasons = <<>>
    /\ nextAdminPk = 1
    /\ nextCustomerPk = 1
    /\ nextBlockPk = 1

EmptyGrants ==
    /\ user_permissions = {}
    /\ groups = {}
    /\ group_permission = {}
    /\ developer_permissions = {}
    /\ developer_groups = {}
    /\ developergroup_permission = {}

----------------------------------------------------------------------------
(* rooms/models.py : Room *)

Whitespace == {" ", "\t"}
RoomChars  == Whitespace \cup {"a"}

\* Config.schema_extra's example
ExampleRoomName == <<"T", "e", "s", "t", " ", "R", "o", "o", "m">>

RECURSIVE lstrip(_)
lstrip(s) == IF s # <<>> /\ Head(s) \in Whitespace THEN lstrip(Tail(s)) ELSE s

RECURSIVE rstrip(_)
rstrip(s) ==
    IF s # <<>> /\ s[Len(s)] \in Whitespace THEN rstrip(SubSeq(s, 1, Len(s) - 1)) ELSE s

\* str.strip()
strip(s) == rstrip(lstrip(s))

\* A datetime: a point of the clock, naive or timezone-aware.
Datetimes == [t : 0..MaxTime, aware : BOOLEAN]

\* datetime.utcnow(): a naive datetime
utcnow == [t |-> now, aware |-> FALSE]

\* a > b on datetimes; comparing a naive with an aware datetime raises TypeError
DatetimeGt(a, b) ==
    IF a.aware # b.aware THEN "TypeError"
    ELSE IF a.t > b.t THEN "True" ELSE "False"

\* Field(default=datetime.utcnow()): evaluated once, when the class is defined
\* (the clock starts there).
Field_default == [t |-> 0, aware |-> FALSE]

\* A validator returns the value or raises: "" is "returned".
validate_room_name(v) == IF strip(v) # <<>> THEN "ValueError" ELSE ""

validate_created_at(v) ==
    LET gt == DatetimeGt(v, utcnow)
    IN  IF gt = "TypeError" THEN "TypeError"
        ELSE IF gt = "True" THEN "ValueError" ELSE ""

\* The fields whose validation fails.  room_name is required; created_at is
\* validated only when supplied (the default is not validated).
RoomErrors(room_name, created_at) ==
    (IF validate_room_name(room_name) # "" THEN {"room_name"} ELSE {})
    \cup (IF ~created_at.none /\ validate_created_at(created_at.v) # ""
          THEN {"created_at"} ELSE {})

NoRoom == [room_name |-> <<>>, created_at |-> Field_default]

\* Room(room_name=..., created_at=...)
Room(room_name, created_at) ==
    LET errs == RoomErrors(room_name, created_at)
    IN  /\ last' = [op         |-> "Room",
                    room_name  |-> room_name,
                    created_at |-> created_at,
                    at         |-> now,
                    errors     |-> errs,
                    ok         |-> errs = {},
                    value      |-> IF errs = {}
                                   THEN [room_name  |-> room_name,
                                         created_at |-> IF created_at.none
                                                        THEN Field_default
                                                        ELSE created_at.v]
                                   ELSE NoRoom]
        /\ UNCHANGED <<now, dbVars, permVars>>

Tick ==
    /\ now < MaxTime
    /\ now' = now + 1
    /\ UNCHANGED <<last, dbVars, permVars>>

RoomNames == SeqsUpTo(RoomChars, MaxNameLen) \cup {ExampleRoomName}
CreatedAts == {None} \cup {Some(d) : d \in Datetimes}

NoCallRoom == [op |-> "none", room_name |-> <<>>, created_at |-> None, at |-> 0,
               errors |-> {}, ok |-> FALSE, value |-> NoRoom]

InitRoom ==
    /\ now = 0
    /\ last = NoCallRoom
    /\ EmptyDb
    /\ EmptyGrants

ConstructRoom == \E n \in RoomNames, c \in CreatedAts : Room(n, c)

NextRoom == ConstructRoom \/ Tick

SpecRoom == InitRoom /\ [][NextRoom]_vars

----------------------------------------------------------------------------
(* administrator/models.py : AdminManager, Admin *)

\* Values an is_superuser / is_active keyword can carry; "absent" is a key
\* that is not in extra_fields.
PyFlags == {"absent", "True", "False", "None", "1"}

\* dict.setdefault(key, default) on one key of extra_fields
setdefault(value, default) == IF value = "absent" THEN default ELSE value

\* unicodedata.normalize("NFKC", c) of one code point; "fi_lig" stands for
\* U+FB01, whose compatibility decomposition is the two letters "fi".
NFKC(c) == IF c = "fi_lig" THEN <<"f", "i">> ELSE <<c>>

RECURSIVE normalize_username(_)
normalize_username(s) ==
    IF s = <<>> THEN <<>> ELSE NFKC(Head(s)) \o normalize_username(Tail(s))

lower(c) == IF c = "E" THEN "e" ELSE IF c = "B" THEN "b" ELSE c

\* position of the last "@" of s, 0 when there is none (str.rsplit("@", 1))
LastAt(s) ==
    LET at == {i \in 1..Len(s) : s[i] = "@"}
    IN  IF at = {} THEN 0 ELSE CHOOSE i \in at : \A j \in at : j <= i

\* BaseUserManager.normalize_email: None becomes "", the domain part is lowercased
normalize_email(email) ==
    IF ~Truthy(email) THEN <<>>
    ELSE LET s == email.v
             i == LastAt(s)
         IN  IF i = 0 THEN s
             ELSE SubSeq(s, 1, i) \o [k \in 1..(Len(s) - i) |-> lower(s[i + k])]

\* make_password: a hash of the password, an unusable password for None
make_password(password) ==
    IF password.none THEN [usable |-> FALSE, hash_of |-> <<>>]
    ELSE [usable |-> TRUE, hash_of |-> password.v]

\* BooleanField: the value the column stores; None violates NOT NULL
BooleanColumn(value, default) ==
    IF value = "absent" THEN default
    ELSE IF value \in {"True", "1"} THEN "True"
    ELSE IF value = "False" THEN "False"
    ELSE "IntegrityError"

NoCall == [op |-> "none", username |-> None, is_superuser |-> "absent",
           reason |-> <<>>, errors |-> {}, pk |-> 0, affected |-> 0, result |-> ""]

Raise(call, error) ==
    /\ last' = [call EXCEPT !.result = error]
    /\ UNCHANGED <<now, dbVars, permVars>>

\* _create_admin_user without its username check
_create_admin_user_NoUsernameCheck(call, username, email, phone, password, su, act) ==
    /\ nextAdminPk <= MaxAdmins
    /\ RowsCreated < MaxRows
    /\ admins' = admins @@
          (nextAdminPk :> [username     |-> normalize_username(username.v),
                           email        |-> normalize_email(email),
                           phone        |-> phone,
                           password     |-> make_password(password),
                           is_superuser |-> su \in {"True", "1"},
                           is_active    |-> act # "False"])
    /\ nextAdminPk' = nextAdminPk + 1
    /\ last' = [call EXCEPT !.result = "saved", !.pk = nextAdminPk]
    /\ UNCHANGED <<now, customers, blockReasons, nextCustomerPk, nextBlockPk, permVars>>

\* AdminManager._create_admin_user; is_superuser and is_active are the
\* extra_fields its caller hands over.
_create_admin_user(call, username, email, phone, password, is_superuser, is_active) ==
    IF ~Truthy(username)
    THEN Raise(call, "ValueError: The given username must be set")
    ELSE LET su  == BooleanColumn(is_superuser, "False")
             act == BooleanColumn(is_active, "True")
             user == [username     |-> normalize_username(username.v),
                      email        |-> normalize_email(email),
                      phone        |-> phone,
                      password     |-> make_password(password),
                      is_superuser |-> su = "True",
                      is_active    |-> act = "True"]
         IN  IF su = "IntegrityError" \/ act = "IntegrityError"
             THEN Raise(call, "IntegrityError")
             ELSE /\ nextAdminPk <= MaxAdmins
                  /\ RowsCreated < MaxRows
                  /\ admins' = admins @@ (nextAdminPk :> user)
                  /\ nextAdminPk' = nextAdminPk + 1
                  /\ last' = [call EXCEPT !.result = "saved", !.pk = nextAdminPk]
                  /\ UNCHANGED <<now, customers, blockReasons, nextCustomerPk,
                                 nextBlockPk, permVars>>

\* create_superuser without its is_superuser check
create_superuser_NoCheck(username, email, password, phone, is_superuser, is_active) ==
    _create_admin_user([NoCall EXCEPT !.op = "create_superuser", !.username = username,
                                      !.is_superuser = is_superuser],
                       username, email, phone, password,
                       setdefault(is_superuser, "True"), is_active)

create_superuser(username, email, password, phone, is_superuser, is_active) ==
    LET call == [NoCall EXCEPT !.op = "create_superuser", !.username = username,
                               !.is_superuser = is_superuser]
        su   == setdefault(is_superuser, "True")
    IN  IF su # "True"
        THEN Raise(call, "ValueError: Superuser must have is_superuser=True.")
        ELSE _create_admin_user(call, username, email, phone, password, su, is_active)

create_user(username, email, password, phone, is_superuser, is_active) ==
    LET call == [NoCall EXCEPT !.op = "create_user", !.username = username,
                               !.is_superuser = is_superuser]
        su   == setdefault(is_superuser, "False")
    IN  _create_admin_user(call, username, email, phone, password, su, is_active)

Usernames == {None, Some(<<>>), Some(<<"a">>), Some(<<"fi_lig">>)}
\* <<email, password, phone, is_active>> of a call
OtherArgs ==
    { <<None, None, None, "absent">>,
      <<Some(<<"B", "@", "E">>), Some(<<"p">>), None, "False">>,
      <<Some(<<"B", "E">>), Some(<<"p">>), Some(<<"5">>), "absent">> }

InitAdmin ==
    /\ now = 0
    /\ last = NoCall
    /\ EmptyDb
    /\ EmptyGrants

CreateSuperuser ==
    \E u \in Usernames, o \in OtherArgs, su \in PyFlags :
        create_superuser(u, o[1], o[2], o[3], su, o[4])

CreateUser ==
    \E u \in Usernames, o \in OtherArgs, su \in PyFlags :
        create_user(u, o[1], o[2], o[3], su, o[4])

NextAdmin == CreateSuperuser \/ CreateUser

SpecAdmin == InitAdmin /\ [][NextAdmin]_vars

----------------------------------------------------------------------------
(* administrator/models.py : BlockReason *)

MinLength  == 3      \* MinLengthValidator(3)
max_length == 255    \* CharField(max_length=255)

\* MinLengthValidator off by one
reason_validators_OffByOne(reason) ==
    (IF Len(reason) < MinLength - 1 THEN {"min_length"} ELSE {})
    \cup (IF Len(reason) > max_length THEN {"max_length"} ELSE {})

\* The validators of BlockReason.reason: the codes of those that fail.
reason_validators(reason) ==
    (IF Len(reason) < MinLength THEN {"min_length"} ELSE {})
    \cup (IF Len(reason) > max_length THEN {"max_length"} ELSE {})

\* Creation of a BlockReason through the validating entry point: the fields
\* are validated, then the row is saved with blocked_at set by the server.
CreateBlockReason(reason, creator, user) ==
    LET call == [NoCall EXCEPT !.op = "create_block_reason", !.reason = reason]
        errors ==
            {<<"reason", e>> : e \in reason_validators(reason)}
            \cup (IF user.none \/ user.v \notin customers
                  THEN {<<"user", "invalid">>} ELSE {})
            \cup (IF ~creator.none /\ creator.v \notin DOMAIN admins
                  THEN {<<"creator", "invalid">>} ELSE {})
    IN  IF errors # {}
        THEN Raise([call EXCEPT !.errors = errors], "ValidationError")
        ELSE /\ RowsCreated < MaxRows
             /\ blockReasons' = blockReasons @@
                    (nextBlockPk :> [reason     |-> reason,
                                     creator    |-> creator,
                                     user       |-> user.v,
                                     blocked_at |-> now])
             /\ nextBlockPk' = nextBlockPk + 1
             /\ last' = [call EXCEPT !.result = "saved", !.pk = nextBlockPk]
             /\ UNCHANGED <<now, admins, customers, nextAdminPk, nextCustomerPk, permVars>>

\* A CustomerUser row is created.
CreateCustomer ==
    /\ RowsCreated < MaxRows
    /\ customers' = customers \cup {nextCustomerPk}
    /\ nextCustomerPk' = nextCustomerPk + 1
    /\ last' = [NoCall EXCEPT !.op = "create_customer", !.pk = nextCustomerPk,
                              !.result = "saved"]
    /\ UNCHANGED <<now, admins, blockReasons, nextAdminPk, nextBlockPk, permVars>>

Restrict(f, S) == [k \in S |-> f[k]]

\* on_delete=DO_NOTHING in place of SET_NULL
creator_on_delete_DoNothing(a) == blockReasons

\* creator = ForeignKey(Admin, on_delete=SET_NULL, null=True): what deleting
\* Admin a does to the block_reasons table
creator_on_delete(a) ==
    [b \in DOMAIN blockReasons |->
        IF blockReasons[b].creator = Some(a)
        THEN [blockReasons[b] EXCEPT !.creator = None]
        ELSE blockReasons[b]]

\* user = ForeignKey(CustomerUser, on_delete=CASCADE): what deleting customer
\* c does to the block_reasons table
user_on_delete(c) ==
    Restrict(blockReasons, {b \in DOMAIN blockReasons : blockReasons[b].user # c})

\* Admin.delete(): the row, its many-to-many rows, and the on_delete rule of
\* every foreign key to it
DeleteAdmin(a) ==
    /\ a \in DOMAIN admins
    /\ admins' = Restrict(admins, DOMAIN admins \ {a})
    /\ blockReasons' = creator_on_delete(a)
    /\ user_permissions' = {r \in user_permissions : r[1] # a}
    /\ groups' = {r \in groups : r[1] # a}
    /\ developer_permissions' = {r \in developer_permissions : r[1] # a}
    /\ developer_groups' = {r \in developer_groups : r[1] # a}
    /\ last' = [NoCall EXCEPT !.op = "delete_admin", !.pk = a, !.result = "deleted",
                              !.affected = Cardinality({b \in DOMAIN blockReasons :
                                                blockReasons[b].creator = Some(a)})]
    /\ UNCHANGED <<now, customers, nextAdminPk, nextCustomerPk, nextBlockPk,
                   group_permission, developergroup_permission>>

\* CustomerUser.delete()
DeleteCustomer(c) ==
    /\ c \in customers
    /\ customers' = customers \ {c}
    /\ blockReasons' = user_on_delete(c)
    /\ last' = [NoCall EXCEPT !.op = "delete_customer", !.pk = c, !.result = "deleted",
                              !.affected = Cardinality({b \in DOMAIN blockReasons :
                                                blockReasons[b].user = c})]
    /\ UNCHANGED <<now, admins, nextAdminPk, nextCustomerPk, nextBlockPk, permVars>>

\* A reason of n characters
Text(n) ==
    IF n = 2 THEN <<"o", "k">>
    ELSE IF n = 3 THEN <<"b", "a", "d">>
    ELSE Repeat("x", n)

Reasons ==
    {Text(n) : n \in 0..MaxReasonLen} \cup {Text(max_length), Text(max_length + 1)}

\* References a caller can hand over: null, every primary key assigned so
\* far (its row alive or deleted) and one that was never assigned.
AdminRefs    == {None} \cup {Some(a) : a \in 1..nextAdminPk}
CustomerRefs == {None} \cup {Some(c) : c \in 1..nextCustomerPk}

InitBlock == InitAdmin

ProvisionAdmin ==
    \/ create_user(Some(<<"a">>), None, Some(<<"p">>), None, "absent", "absent")
    \/ create_superuser(Some(<<"a">>), None, Some(<<"p">>), None, "absent", "absent")

\* one reason that is too short and one that is long enough
AuditReasons == {Text(MinLength - 1), Text(MinLength)}

NewBlockReason ==
    \E r \in AuditReasons, a \in AdminRefs, c \in CustomerRefs : CreateBlockReason(r, a, c)

RemoveAdmin == \E a \in DOMAIN admins : DeleteAdmin(a)

RemoveCustomer == \E c \in customers : DeleteCustomer(c)

NextBlock ==
    \/ ProvisionAdmin
    \/ CreateCustomer
    \/ NewBlockReason
    \/ RemoveAdmin
    \/ RemoveCustomer

SpecBlock == InitBlock /\ [][NextBlock]_vars

\* Creation alone, over reasons of every length
InitReason == InitAdmin

\* null or the first row of the table (which may not exist yet)
FirstRow == {None, Some(1)}

SubmitBlockReason ==
    \E r \in Reasons, a \in FirstRow, c \in FirstRow : CreateBlockReason(r, a, c)

AddStaff == create_user(Some(<<"a">>), None, Some(<<"p">>), None, "absent", "absent")

NextReason ==
    \/ AddStaff
    \/ CreateCustomer
    \/ SubmitBlockReason

SpecReason == InitReason /\ [][NextReason]_vars

----------------------------------------------------------------------------
(* administrator/models.py : AdminPermissionMixin *)

\* The permission tables: primary key -> codename.  "X" is a codename of both
\* taxonomies, "Z" is in no table.
AdminPermission     == [ap1 |-> "X", ap2 |-> "Y"]
DeveloperPermission == [dp1 |-> "D", dp2 |-> "X"]
AdminGroup          == {"ag1"}
DeveloperGroup      == {"dg1"}
Codenames           == {"X", "Y", "D", "Z"}

\* self.user_permissions.filter(codename=perm)
DirectAdminPerms(self, perm) ==
    {p \in DOMAIN AdminPermission :
        <<self, p>> \in user_permissions /\ AdminPermission[p] = perm}

\* AdminPermission.objects.filter(admingroup__admin=self, codename=perm)
GroupAdminPerms(self, perm) ==
    {p \in DOMAIN AdminPermission :
        /\ AdminPermission[p] = perm
        /\ \E g \in AdminGroup : <<g, p>> \in group_permission /\ <<self, g>> \in groups}

\* self.developer_permissions.filter(codename=perm)
DirectDeveloperPerms(self, perm) ==
    {p \in DOMAIN DeveloperPermission :
        <<self, p>> \in developer_permissions /\ DeveloperPermission[p] = perm}

\* DeveloperPermission.objects.filter(developergroup__admin=self, codename=perm)
GroupDeveloperPerms(self, perm) ==
    {p \in DOMAIN DeveloperPermission :
        /\ DeveloperPermission[p] = perm
        /\ \E g \in DeveloperGroup :
              <<g, p>> \in developergroup_permission /\ <<self, g>> \in developer_groups}

\* has_perm without the superuser bypass
has_perm_NoBypass(self, perm) ==
    DirectAdminPerms(self, perm) \cup GroupAdminPerms(self, perm)
    \cup DirectDeveloperPerms(self, perm) \cup GroupDeveloperPerms(self, perm) # {}

\* has_perm whose bypass forgets is_active
has_perm_InactiveBypass(self, perm) ==
    \/ admins[self].is_superuser
    \/ has_perm_NoBypass(self, perm)

has_perm(self, perm) ==
    IF admins[self].is_active /\ admins[self].is_superuser
    THEN TRUE
    ELSE LET user_perm == DirectAdminPerms(self, perm) \cup GroupAdminPerms(self, perm)
             dev_perm  == DirectDeveloperPerms(self, perm)
                          \cup GroupDeveloperPerms(self, perm)
         IN  user_perm # {} \/ dev_perm # {}

\* get_all_permissions that forgets the groups
get_all_permissions_DirectOnly(self) ==
    {p \in DOMAIN AdminPermission : <<self, p>> \in user_permissions}

\* self.user_permissions.all() | AdminPermission.objects.filter(admingroup__admin=self)
get_all_permissions(self) ==
    {p \in DOMAIN AdminPermission : <<self, p>> \in user_permissions}
    \cup {p \in DOMAIN AdminPermission :
            \E g \in AdminGroup : <<g, p>> \in group_permission /\ <<self, g>> \in groups}

\* Rows of the six many-to-many tables
GrantRows ==
    Cardinality(user_permissions) + Cardinality(groups) + Cardinality(group_permission)
    + Cardinality(developer_permissions) + Cardinality(developer_groups)
    + Cardinality(developergroup_permission)

\* admin.user_permissions.add(p) / .remove(p)
AddUserPermission(a, p) ==
    /\ GrantRows < MaxGrantRows
    /\ <<a, p>> \notin user_permissions
    /\ user_permissions' = user_permissions \cup {<<a, p>>}
    /\ UNCHANGED <<roomVars, dbVars, groups, group_permission, developer_permissions,
                   developer_groups, developergroup_permission>>

RemoveUserPermission(a, p) ==
    /\ <<a, p>> \in user_permissions
    /\ user_permissions' = user_permissions \ {<<a, p>>}
    /\ UNCHANGED <<roomVars, dbVars, groups, group_permission, developer_permissions,
                   developer_groups, developergroup_permission>>

\* admin.groups.add(g) / .remove(g)
AddGroup(a, g) ==
    /\ GrantRows < MaxGrantRows
    /\ <<a, g>> \notin groups
    /\ groups' = groups \cup {<<a, g>>}
    /\ UNCHANGED <<roomVars, dbVars, user_permissions, group_permission,
                   developer_permissions, developer_groups, developergroup_permission>>

RemoveGroup(a, g) ==
    /\ <<a, g>> \in groups
    /\ groups' = groups \ {<<a, g>>}
    /\ UNCHANGED <<roomVars, dbVars, user_permissions, group_permission,
                   developer_permissions, developer_groups, developergroup_permission>>

\* group.permission.add(p) / .remove(p)
AddGroupPermission(g, p) ==
    /\ GrantRows < MaxGrantRows
    /\ <<g, p>> \notin group_permission
    /\ group_permission' = group_permission \cup {<<g, p>>}
    /\ UNCHANGED <<roomVars, dbVars, user_permissions, groups, developer_permissions,
                   developer_groups, developergroup_permission>>

RemoveGroupPermission(g, p) ==
    /\ <<g, p>> \in group_permission
    /\ group_permission' = group_permission \ {<<g, p>>}
    /\ UNCHANGED <<roomVars, dbVars, user_permissions, groups, developer_permissions,
                   developer_groups, developergroup_permission>>

\* admin.developer_permissions.add(p) / .remove(p)
AddDeveloperPermission(a, p) ==
    /\ GrantRows < MaxGrantRows
    /\ <<a, p>> \notin developer_permissions
    /\ developer_permissions' = developer_permissions \cup {<<a, p>>}
    /\ UNCHANGED <<roomVars, dbVars, user_permissions, groups, group_permission,
                   developer_groups, developergroup_permission>>

RemoveDeveloperPermission(a, p) ==
    /\ <<a, p>> \in developer_permissions
    /\ developer_permissions' = developer_permissions \ {<<a, p>>}
    /\ UNCHANGED <<roomVars, dbVars, user_permissions, groups, group_permission,
                   developer_groups, developergroup_permission>>

\* admin.developer_groups.add(g) / .remove(g)
AddDeveloperGroup(a, g) ==
    /\ GrantRows < MaxGrantRows
    /\ <<a, g>> \notin developer_groups
    /\ developer_groups' = developer_groups \cup {<<a, g>>}
    /\ UNCHANGED <<roomVars, dbVars, user_permissions, groups, group_permission,
                   developer_permissions, developergroup_permission>>

RemoveDeveloperGroup(a, g) ==
    /\ <<a, g>> \in developer_groups
    /\ developer_groups' = developer_groups \ {<<a, g>>}
    /\ UNCHANGED <<roomVars, dbVars, user_permissions, groups, group_permission,
                   developer_permissions, developergroup_permission>>

\* a developer group is granted / loses a developer permission
AddDeveloperGroupPermission(g, p) ==
    /\ GrantRows < MaxGrantRows
    /\ <<g, p>> \notin developergroup_permission
    /\ developergroup_permission' = developergroup_permission \cup {<<g, p>>}
    /\ UNCHANGED <<roomVars, dbVars, user_permissions, groups, group_permission,
                   developer_permissions, developer_groups>>

RemoveDeveloperGroupPermission(g, p) ==
    /\ <<g, p>> \in developergroup_permission
    /\ developergroup_permission' = developergroup_permission \ {<<g, p>>}
    /\ UNCHANGED <<roomVars, dbVars, user_permissions, groups, group_permission,
                   developer_permissions, developer_groups>>

\* The Admin rows the provisioning calls can have stored: every combination
\* of the two flags.
StoredAdmin(su, act) ==
    [username     |-> <<"a">>,
     email        |-> <<>>,
     phone        |-> None,
     password     |-> make_password(Some(<<"p">>)),
     is_superuser |-> su,
     is_active    |-> act]

PermAdmins == {1, 2}

InitPerm ==
    /\ now = 0
    /\ last = NoCall
    /\ \E su \in [PermAdmins -> BOOLEAN], act \in [PermAdmins -> BOOLEAN] :
          admins = [a \in PermAdmins |-> StoredAdmin(su[a], act[a])]
    /\ customers = {}
    /\ blockReasons = <<>>
    /\ nextAdminPk = Cardinality(PermAdmins) + 1
    /\ nextCustomerPk = 1
    /\ nextBlockPk = 1
    /\ EmptyGrants

GrantUserPermission ==
    \E a \in DOMAIN admins, p \in DOMAIN AdminPermission : AddUserPermission(a, p)
RevokeUserPermission ==
    \E a \in DOMAIN admins, p \in DOMAIN AdminPermission : RemoveUserPermission(a, p)
JoinGroup ==
    \E a \in DOMAIN admins, g \in AdminGroup : AddGroup(a, g)
LeaveGroup ==
    \E a \in DOMAIN admins, g \in AdminGroup : RemoveGroup(a, g)
GrantGroupPermission ==
    \E g \in AdminGroup, p \in DOMAIN AdminPermission : AddGroupPermission(g, p)
RevokeGroupPermission ==
    \E g \in AdminGroup, p \in DOMAIN AdminPermission : RemoveGroupPermission(g, p)
GrantDeveloperPermission ==
    \E a \in DOMAIN admins, p \in DOMAIN DeveloperPermission : AddDeveloperPermission(a, p)
RevokeDeveloperPermission ==
    \E a \in DOMAIN admins, p \in DOMAIN DeveloperPermission :
        RemoveDeveloperPermission(a, p)
JoinDeveloperGroup ==
    \E a \in DOMAIN admins, g \in DeveloperGroup : AddDeveloperGroup(a, g)
LeaveDeveloperGroup ==
    \E a \in DOMAIN admins, g \in DeveloperGroup : RemoveDeveloperGroup(a, g)
GrantDeveloperGroupPermission ==
    \E g \in DeveloperGroup, p \in DOMAIN DeveloperPermission :
        AddDeveloperGroupPermission(g, p)
RevokeDeveloperGroupPermission ==
    \E g \in DeveloperGroup, p \in DOMAIN DeveloperPermission :
        RemoveDeveloperGroupPermission(g, p)

NextPerm ==
    \/ GrantUserPermission
    \/ RevokeUserPermission
    \/ JoinGroup
    \/ LeaveGroup
    \/ GrantGroupPermission
    \/ RevokeGroupPermission
    \/ GrantDeveloperPermission
    \/ RevokeDeveloperPermission
    \/ JoinDeveloperGroup
    \/ LeaveDeveloperGroup
    \/ GrantDeveloperGroupPermission
    \/ RevokeDeveloperGroupPermission

SpecPerm == InitPerm /\ [][NextPerm]_vars

----------------------------------------------------------------------------
(* Properties *)

Bypass(a) == admins[a].is_active /\ admins[a].is_superuser

\* The many-to-many rows that mention Admin a
RowsOf(a) ==
    {r \in user_permissions \cup groups \cup developer_permissions \cup developer_groups :
        r[1] = a}

\* C1: an active superuser has every permission, whatever the codename (also
\* one that is in no permission table) and whatever the grants and memberships.
C1_SuperuserHasEveryPerm ==
    \A a \in DOMAIN admins, P \in Codenames : Bypass(a) => has_perm(a, P)

\* an active superuser without any grant or membership holds "Z", which no table has
C1_Witness ==
    \E a \in DOMAIN admins :
        /\ Bypass(a)
        /\ RowsOf(a) = {}
        /\ \A p \in DOMAIN AdminPermission : AdminPermission[p] # "Z"
        /\ \A p \in DOMAIN DeveloperPermission : DeveloperPermission[p] # "Z"
        /\ has_perm(a, "Z")

\* One of the four grants of codename P exists for Admin a.
Granted(a, P) ==
    \/ \E p \in DOMAIN AdminPermission :
          AdminPermission[p] = P /\ <<a, p>> \in user_permissions
    \/ \E p \in DOMAIN AdminPermission, g \in AdminGroup :
          AdminPermission[p] = P /\ <<a, g>> \in groups /\ <<g, p>> \in group_permission
    \/ \E p \in DOMAIN DeveloperPermission :
          DeveloperPermission[p] = P /\ <<a, p>> \in developer_permissions
    \/ \E p \in DOMAIN DeveloperPermission, g \in DeveloperGroup :
          /\ DeveloperPermission[p] = P
          /\ <<a, g>> \in developer_groups
          /\ <<g, p>> \in developergroup_permission

\* C2: for an actor that is not both active and superuser, has_perm(P) is true
\* exactly when a direct or group-derived grant of P exists for that actor in
\* the standard or the developer taxonomy.
C2_HasPermIffGranted ==
    \A a \in DOMAIN admins, P \in Codenames :
        ~Bypass(a) => (has_perm(a, P) <=> Granted(a, P))

\* an inactive superuser holds "D" through a developer group alone, and nothing
\* else, while the other Admin holds a direct grant of "Y"
C2_Witness ==
    \E a, b \in DOMAIN admins :
        /\ a # b
        /\ admins[a].is_superuser /\ ~admins[a].is_active
        /\ developer_permissions = {}
        /\ <<a, "dg1">> \in developer_groups
        /\ <<"dg1", "dp1">> \in developergroup_permission
        /\ <<b, "ap2">> \in user_permissions
        /\ has_perm(a, "D")
        /\ ~has_perm(a, "Y")
        /\ ~has_perm(a, "Z")

\* C9: get_all_permissions is the standard-taxonomy permissions granted to the
\* actor directly or through one of its standard groups, nothing else; it does
\* not depend on is_superuser or is_active; has_perm holds of every codename it
\* lists.
C9_GetAllPermissions ==
    /\ \A a \in DOMAIN admins :
          /\ get_all_permissions(a) =
                {p \in DOMAIN AdminPermission :
                    \/ <<a, p>> \in user_permissions
                    \/ \E g \in AdminGroup :
                          <<a, g>> \in groups /\ <<g, p>> \in group_permission}
          /\ get_all_permissions(a) \cap DOMAIN DeveloperPermission = {}
          /\ \A p \in get_all_permissions(a) : has_perm(a, AdminPermission[p])
    /\ \A a, b \in DOMAIN admins :
          (/\ {r[2] : r \in {x \in user_permissions : x[1] = a}}
                = {r[2] : r \in {x \in user_permissions : x[1] = b}}
           /\ {r[2] : r \in {x \in groups : x[1] = a}}
                = {r[2] : r \in {x \in groups : x[1] = b}})
          => get_all_permissions(a) = get_all_permissions(b)

\* an ordinary Admin lists "Y" through a group and holds "D", which is not
\* listed; an active superuser in the same group lists the same and holds "Z"
C9_Witness ==
    \E a, b \in DOMAIN admins :
        /\ ~Bypass(a) /\ Bypass(b)
        /\ user_permissions = {}
        /\ get_all_permissions(a) = {"ap2"}
        /\ get_all_permissions(b) = {"ap2"}
        /\ has_perm(a, "D")
        /\ has_perm(b, "Z")

ValueErrors ==
    {"ValueError: The given username must be set",
     "ValueError: Superuser must have is_superuser=True."}

\* C5: create_superuser with is_superuser given as anything but True fails and
\* leaves the admin table as it was; every row create_superuser saves has
\* is_superuser = true (also when the keyword is omitted).
C5_Step ==
    last'.op = "create_superuser" =>
        /\ last'.is_superuser \notin {"absent", "True"} =>
              /\ last'.result = "ValueError: Superuser must have is_superuser=True."
              /\ admins' = admins
        /\ last'.result = "saved" =>
              /\ DOMAIN admins' = DOMAIN admins \cup {last'.pk}
              /\ last'.pk \notin DOMAIN admins
              /\ admins'[last'.pk].is_superuser

C5_SuperuserFlagEnforced == [][C5_Step]_vars

\* create_superuser(is_superuser=False) has failed, next to a superuser stored
\* earlier
C5_Witness ==
    /\ last.op = "create_superuser"
    /\ last.is_superuser = "False"
    /\ last.result = "ValueError: Superuser must have is_superuser=True."
    /\ \E a \in DOMAIN admins : admins[a].is_superuser

\* C6: create_user and create_superuser with an empty or missing username fail
\* and save nothing.
C6_Step ==
    (last'.op \in {"create_user", "create_superuser"} /\ ~Truthy(last'.username)) =>
        /\ last'.result \in ValueErrors
        /\ admins' = admins
        /\ nextAdminPk' = nextAdminPk

C6_EmptyUsernameRejected == [][C6_Step]_vars

\* create_user("") has failed on the username while a row is stored
C6_Witness ==
    /\ last.op = "create_user"
    /\ last.username = Some(<<>>)
    /\ last.result = "ValueError: The given username must be set"
    /\ admins # <<>>

\* C7: a BlockReason is stored only with a reason of at least 3 characters: a
\* shorter one fails validation and stores nothing, one of 3 characters passes
\* the length check and is stored when nothing else is wrong.
C7_Step ==
    /\ \A b \in DOMAIN blockReasons' : Len(blockReasons'[b].reason) >= 3
    /\ last'.op = "create_block_reason" =>
          /\ Len(last'.reason) < 3 =>
                /\ last'.result = "ValidationError"
                /\ <<"reason", "min_length">> \in last'.errors
                /\ blockReasons' = blockReasons
          /\ Len(last'.reason) = 3 =>
                /\ <<"reason", "min_length">> \notin last'.errors
                /\ last'.errors = {} =>
                      /\ last'.result = "saved"
                      /\ last'.pk \notin DOMAIN blockReasons
                      /\ DOMAIN blockReasons' = DOMAIN blockReasons \cup {last'.pk}
                      /\ blockReasons'[last'.pk].reason = last'.reason

RefIntegrity ==
    \A b \in DOMAIN blockReasons :
        /\ blockReasons[b].user \in customers
        /\ blockReasons[b].creator.none \/ blockReasons[b].creator.v \in DOMAIN admins

\* What a step that deletes an Admin or a customer does to the BlockReasons.
DeleteEffects ==
    /\ \A a \in DOMAIN admins \ DOMAIN admins' :
          /\ DOMAIN blockReasons' = DOMAIN blockReasons
          /\ \A b \in DOMAIN blockReasons :
                /\ blockReasons'[b].reason = blockReasons[b].reason
                /\ blockReasons'[b].user = blockReasons[b].user
                /\ blockReasons'[b].blocked_at = blockReasons[b].blocked_at
                /\ blockReasons'[b].creator =
                      IF blockReasons[b].creator = Some(a)
                      THEN None ELSE blockReasons[b].creator
    /\ \A c \in customers \ customers' :
          /\ DOMAIN blockReasons' = {b \in DOMAIN blockReasons : blockReasons[b].user # c}
          /\ \A b \in DOMAIN blockReasons' : blockReasons'[b] = blockReasons[b]

\* C8: referential integrity of the BlockReasons over every sequence of
\* creations and deletions: deleting an Admin keeps the rows it created with
\* creator null, deleting a customer deletes exactly the rows that target it.
C8_ReferentialIntegrity == RefIntegrity /\ [][RefIntegrity' /\ DeleteEffects]_vars

\* an Admin that had created a BlockReason was deleted: that row is kept with
\* creator null, next to a row that still names its (other) creator
C8_Witness ==
    /\ last.op = "delete_admin"
    /\ last.affected > 0
    /\ \E b \in DOMAIN blockReasons : blockReasons[b].creator.none
    /\ \E b \in DOMAIN blockReasons : ~blockReasons[b].creator.none

\* C3 (as claimed): a room_name that is empty or all whitespace fails
\* validation on room_name, so no constructed Room has a blank room_name.
C3_BlankRoomNameRejected ==
    last.op = "Room" =>
        /\ strip(last.room_name) = <<>> => ("room_name" \in last.errors /\ ~last.ok)
        /\ last.ok => strip(last.value.room_name) # <<>>

\* C4 (as claimed): a supplied created_at after the current time fails
\* validation on created_at; one at or before the current time passes the
\* created_at check.
C4_CreatedAtNotInFuture ==
    (last.op = "Room" /\ ~last.created_at.none) =>
        /\ last.created_at.v.t > last.at => "created_at" \in last.errors
        /\ last.created_at.v.t <= last.at => "created_at" \notin last.errors

\* C10 (as claimed): a room_name that is not blank, with a created_at not after
\* the current time, constructs a Room that carries the room_name unchanged.
C10_ValidRoomAccepted ==
    (/\ last.op = "Room"
     /\ strip(last.room_name) # <<>>
     /\ last.created_at.none \/ last.created_at.v.t <= last.at)
    => (last.ok /\ last.value.room_name = last.room_name)

====
